---- MODULE Spec2Model ----
(***************************************************************************)
(* Model of reservas.py: a menu-driven room reservation program over a     *)
(* SQLite file.  Several instances of the program may share the file; each *)
(* instance is a process that walks through the prompts of one menu option *)
(* at a time.  A step of a process is one input() together with every      *)
(* statement executed up to the next input() or the next commit.           *)
(*                                                                         *)
(* Texts (what the user types, what the tables store) are sequences of     *)
(* one-character strings.  A date object is its proleptic Gregorian        *)
(* ordinal (date.toordinal()).                                             *)
(***************************************************************************)
EXTENDS Integers, Sequences, FiniteSets

(* ------------------------------------------------------------------ *)
(* Texts                                                               *)
(* ------------------------------------------------------------------ *)

\* The characters that occur in the model, in increasing code-point order.
Alfabeto ==
    <<" ", "-", ".", "0", "1", "2", "3", "4", "5", "6", "7", "8", "9",
      "A", "B", "C", "G", "M", "N", "R", "S", "V", "X",
      "a", "b", "c", "d", "e", "g", "i", "l", "m", "n", "o", "p", "r", "s", "t",
      "u", "v", "x">>

\* Rank of a character in code-point order (order-isomorphic to ord()).
ord(c) == CHOOSE i \in 1..Len(Alfabeto) : Alfabeto[i] = c

Digitos == <<"0", "1", "2", "3", "4", "5", "6", "7", "8", "9">>

EsDigito(c) == \E i \in 1..10 : Digitos[i] = c

ValorDigito(c) == (CHOOSE i \in 1..10 : Digitos[i] = c) - 1

\* Byte-wise comparison of two texts (SQLite BINARY collation, Python str <).
RECURSIVE TextoMenor(_, _)
TextoMenor(a, b) ==
    IF b = << >> THEN FALSE
    ELSE IF a = << >> THEN TRUE
    ELSE IF a[1] # b[1] THEN ord(a[1]) < ord(b[1])
    ELSE TextoMenor(Tail(a), Tail(b))

TextoMenorIgual(a, b) == a = b \/ TextoMenor(a, b)

\* str.strip(): drop leading and trailing blanks.
RECURSIVE lstrip(_)
lstrip(s) == IF s # << >> /\ s[1] = " " THEN lstrip(Tail(s)) ELSE s

\* Variant: the text is taken as typed.
sin_recorte(s) == s

RECURSIVE rstrip(_)
rstrip(s) ==
    IF s # << >> /\ s[Len(s)] = " " THEN rstrip(SubSeq(s, 1, Len(s) - 1)) ELSE s

strip(s) == rstrip(lstrip(s))

\* str.lower() on a character of Alfabeto.
lowerChar(c) ==
    CASE c = "A" -> "a"
      [] c = "B" -> "b"
      [] c = "C" -> "c"
      [] c = "G" -> "g"
      [] c = "M" -> "m"
      [] c = "N" -> "n"
      [] c = "R" -> "r"
      [] c = "S" -> "s"
      [] c = "V" -> "v"
      [] c = "X" -> "x"
      [] OTHER -> c

lower(s) == [i \in 1..Len(s) |-> lowerChar(s[i])]

\* Decimal value of a text of digits.
RECURSIVE ValorDecimal(_)
ValorDecimal(s) ==
    IF s = << >> THEN 0
    ELSE 10 * ValorDecimal(SubSeq(s, 1, Len(s) - 1)) + ValorDigito(s[Len(s)])

SoloDigitos(s) == s # << >> /\ \A i \in 1..Len(s) : EsDigito(s[i])

\* int() refuses a text of more than this many digits
\* (sys.int_info.default_max_str_digits).
MAX_STR_DIGITS == 4300

\* The text has a sign in front.
Negativo(t) == t # << >> /\ t[1] = "-"

\* The digits of a text that int() accepts.
Cifras(t) == IF Negativo(t) THEN Tail(t) ELSE t

\* int() accepts the text (over Alfabeto, blanks dropped): an optional sign
\* and at least one digit, at most MAX_STR_DIGITS of them.
EsEntero(t) == SoloDigitos(Cifras(t)) /\ Len(Cifras(t)) <= MAX_STR_DIGITS

\* int(text) for a text over Alfabeto: << >> when int() raises ValueError,
\* <<n>> otherwise.  int() drops the blanks around the text and accepts a
\* sign in front of the digits.
int(s) ==
    LET t == strip(s) IN
    IF ~EsEntero(t) THEN << >>
    ELSE IF Negativo(t) THEN <<0 - ValorDecimal(Cifras(t))>>
    ELSE <<ValorDecimal(Cifras(t))>>

\* A text of digits without its leading zeros.
RECURSIVE SinCeros(_)
SinCeros(s) == IF s # << >> /\ s[1] = "0" THEN SinCeros(Tail(s)) ELSE s

\* 2^63 in decimal: the first integer that SQLite cannot store.
Dos63 ==
    <<"9", "2", "2", "3", "3", "7", "2", "0", "3", "6",
      "8", "5", "4", "7", "7", "5", "8", "0", "8">>

\* The integer written by the digits is 2^63 or more, so binding it to a
\* statement raises OverflowError.
ExcedeSQLite(cifras) ==
    LET c == SinCeros(cifras) IN
    Len(c) > Len(Dos63) \/ (Len(c) = Len(Dos63) /\ ~TextoMenor(c, Dos63))

\* Decimal digits of n, zero-padded on the left to at least w characters
\* (format spec "0wd").
RECURSIVE Decimal(_)
Decimal(n) ==
    IF n < 10 THEN <<Digitos[n + 1]>>
    ELSE Decimal(n \div 10) \o <<Digitos[(n % 10) + 1]>>

RECURSIVE RellenaCeros(_, _)
RellenaCeros(s, w) == IF Len(s) >= w THEN s ELSE RellenaCeros(<<"0">> \o s, w)

(* ------------------------------------------------------------------ *)
(* Dates (datetime.date as its ordinal)                                *)
(* ------------------------------------------------------------------ *)

EsBisiesto(y) == y % 4 = 0 /\ (y % 100 # 0 \/ y % 400 = 0)

DiasEnMes(y, m) ==
    IF m = 2 THEN (IF EsBisiesto(y) THEN 29 ELSE 28)
    ELSE IF m \in {4, 6, 9, 11} THEN 30 ELSE 31

DiasAntesDeAnio(y) ==
    (y - 1) * 365 + ((y - 1) \div 4) - ((y - 1) \div 100) + ((y - 1) \div 400)

RECURSIVE DiasAntesDeMes(_, _)
DiasAntesDeMes(y, m) ==
    IF m = 1 THEN 0 ELSE DiasAntesDeMes(y, m - 1) + DiasEnMes(y, m - 1)

\* date(y, m, d).toordinal()
toordinal(y, m, d) == DiasAntesDeAnio(y) + DiasAntesDeMes(y, m) + d

\* The year of an ordinal.
AnioDe(n) ==
    LET n0   == n - 1
        n400 == n0 \div 146097
        r400 == n0 % 146097
        n100 == r400 \div 36524
        r100 == r400 % 36524
        n4   == r100 \div 1461
        r4   == r100 % 1461
        n1   == r4 \div 365
        y    == n400 * 400 + n100 * 100 + n4 * 4 + n1 + 1
    IN IF n1 = 4 \/ n100 = 4 THEN y - 1 ELSE y

\* <<month, day>> of the r-th day of year y, searching from month m.
RECURSIVE MesDia(_, _, _)
MesDia(y, r, m) ==
    IF r <= DiasEnMes(y, m) THEN <<m, r>> ELSE MesDia(y, r - DiasEnMes(y, m), m + 1)

\* <<year, month, day>> of an ordinal.
fromordinal(n) ==
    LET y  == AnioDe(n)
        md == MesDia(y, n - DiasAntesDeAnio(y), 1)
    IN <<y, md[1], md[2]>>

\* date.weekday(): Monday is 0, Sunday is 6.
weekday(n) == (n + 6) % 7

\* d.strftime("%m-%d-%Y"): month and day take two digits; the C library's
\* %Y writes the year without padding, so a year below 1000 takes fewer
\* than four digits.
strftime(n) ==
    LET ymd == fromordinal(n) IN
    RellenaCeros(Decimal(ymd[2]), 2) \o <<"-">>
        \o RellenaCeros(Decimal(ymd[3]), 2) \o <<"-">>
        \o Decimal(ymd[1])

\* Position of the first "-" of a text, 0 when there is none.
RECURSIVE PosGuion(_, _)
PosGuion(s, i) ==
    IF i > Len(s) THEN 0 ELSE IF s[i] = "-" THEN i ELSE PosGuion(s, i + 1)

\* The %m directive: one or two digits, 1..12.
CampoMesValido(f) ==
    SoloDigitos(f) /\ Len(f) <= 2 /\ ValorDecimal(f) \in 1..12

\* The %d directive: one or two digits, 1..31, or a blank and one digit 1..9.
CampoDiaValido(f) ==
    \/ SoloDigitos(f) /\ Len(f) <= 2 /\ ValorDecimal(f) \in 1..31
    \/ Len(f) = 2 /\ f[1] = " " /\ EsDigito(f[2]) /\ ValorDigito(f[2]) >= 1

ValorCampoDia(f) == IF f[1] = " " THEN ValorDigito(f[2]) ELSE ValorDecimal(f)

\* The %Y directive: exactly four digits.
CampoAnioValido(f) == SoloDigitos(f) /\ Len(f) = 4

\* parsear_fecha: << >> for None, <<ordinal>> for a date.
parsear_fecha(texto) ==
    LET p1 == PosGuion(texto, 1)
        r1 == IF p1 = 0 THEN << >> ELSE SubSeq(texto, p1 + 1, Len(texto))
        p2 == PosGuion(r1, 1)
        fm == IF p1 = 0 THEN << >> ELSE SubSeq(texto, 1, p1 - 1)
        fd == IF p2 = 0 THEN << >> ELSE SubSeq(r1, 1, p2 - 1)
        fy == IF p2 = 0 THEN << >> ELSE SubSeq(r1, p2 + 1, Len(r1))
    IN IF p1 = 0 \/ p2 = 0 THEN << >>
       ELSE IF ~(CampoMesValido(fm) /\ CampoDiaValido(fd) /\ CampoAnioValido(fy))
       THEN << >>
       ELSE LET y == ValorDecimal(fy)
                m == ValorDecimal(fm)
                d == ValorCampoDia(fd)
            IN IF y < 1 \/ d > DiasEnMes(y, m) THEN << >>
               ELSE <<toordinal(y, m, d)>>

(* ------------------------------------------------------------------ *)
(* Bounds and literals                                                 *)
(* ------------------------------------------------------------------ *)

\* The program instances that share the database file.
Procs == {"p1", "p2"}

\* Registrations, reservations and changes of day are cut off at these.
MaxClientes == 1
MaxSalas == 1
MaxReservas == 3
MaxDias == 1

\* The largest store from which the read-only operations are explored.
MaxFilas == 3

\* The calendar day on which the instances are started: Saturday 12-27-2025.
HoyInicial == toordinal(2025, 12, 27)

Matutino == <<"M", "a", "t", "u", "t", "i", "n", "o">>
Vespertino == <<"V", "e", "s", "p", "e", "r", "t", "i", "n", "o">>
Nocturno == <<"N", "o", "c", "t", "u", "r", "n", "o">>

TURNOS == <<Matutino, Vespertino, Nocturno>>

\* What the user may type at each prompt.
ClavesIn == {<<"C">>, <<"0">>, <<"-", "0">>, <<"1">>, <<" ", "2">>, <<"3">>, <<"x">>}

F_12_28_2025 == <<"1", "2", "-", "2", "8", "-", "2", "0", "2", "5">>
F_12_29_2025 == <<"1", "2", "-", "2", "9", "-", "2", "0", "2", "5">>
F_1_4_2026 == <<"1", "-", "4", "-", "2", "0", "2", "6">>
F_01_05_2026 == <<"0", "1", "-", "0", "5", "-", "2", "0", "2", "6">>
F_01_01_2025 == <<"0", "1", "-", "0", "1", "-", "2", "0", "2", "5">>
F_12_31_2026 == <<"1", "2", "-", "3", "1", "-", "2", "0", "2", "6">>
F_02_30_2026 == <<"0", "2", "-", "3", "0", "-", "2", "0", "2", "6">>
F_12_29_25 == <<"1", "2", "-", "2", "9", "-", "2", "5">>
F_12_29_0999 == <<"1", "2", "-", "2", "9", "-", "0", "9", "9", "9">>

FechasIn == {F_12_28_2025, F_12_29_2025, F_1_4_2026, F_02_30_2026, F_12_29_25}

RangoIn ==
    {F_12_29_0999, F_01_01_2025, F_12_29_2025, F_01_05_2026, F_12_31_2026, <<"x">>}

ConsultaIn == {<< >>, F_12_29_2025, F_01_05_2026, <<"x">>}

SiNoIn == {<<"s">>, <<"S", " ">>, <<"n">>, <<"x">>}

TurnosIn ==
    {Matutino, Vespertino, <<" ">> \o Nocturno,
     <<"m", "a", "t", "u", "t", "i", "n", "o">>}

EventosIn == {<< >>, <<" ">>, <<"B", "o", "d", "a">>}

NuevosIn == {<<" ", " ">>, <<" ", "G", "a", "l", "a", " ">>}

FormatosIn == {<<"1">>, <<"2">>, <<"3">>, <<"c">>, <<"x">>}

\* DB_FILE
DB_FILE == <<"r", "e", "s", "e", "r", "v", "a", "s", ".", "d", "b">>

\* The longest file name the file system takes (NAME_MAX).
NAME_MAX == 255

ArchivosIn ==
    {<< >>, <<" ", "r", " ">>, <<" ">> \o DB_FILE, <<".">>,
     [i \in 1..(NAME_MAX + 1) |-> "r"]}

NombresIn == {<< >>, <<" ">>, <<" ", "A", "n", "a", " ">>}

CuposIn == {<<"x">>, <<"0">>, <<"-", "1">>, <<" ", "2", "0">>, Dos63}

(* ------------------------------------------------------------------ *)
(* State                                                               *)
(* ------------------------------------------------------------------ *)

VARIABLES
    base,           \* the file DB_FILE holds a SQLite database
    hoy,            \* date.today(), as an ordinal
    clientes,       \* table clientes: the set of ids
    salas,          \* table salas: the set of ids
    reservaciones,  \* table reservaciones: the set of committed rows
    pc,             \* pc[p]: the prompt at which instance p waits
    loc,            \* loc[p]: the local variables of the running handler
    msg,            \* msg[p]: what lines 269/271 printed in p's last step
    rechazada       \* history: the row whose INSERT failed in p's last step

vars == <<base, hoy, clientes, salas, reservaciones, pc, loc, msg, rechazada>>

\* Local variables of the handlers; a local that is dead at the prompt
\* where the instance waits holds the value it has here.
SinLocales ==
    [ nombre        |-> << >>,  \* registrar_cliente, registrar_sala: nombre
      clientes      |-> {},     \* registrar_reservacion: clientes
      cliente_id    |-> 0,
      min_fecha     |-> 0,
      hoy_validada  |-> 0,      \* history: date.today() when d passed line 213
      d             |-> 0,
      salas         |-> << >>,  \* salas_disponibles_para_fecha: salas
      i             |-> 0,      \* position of s in salas
      j             |-> 0,      \* position of t in TURNOS
      turnos_libres |-> << >>,
      disponibles   |-> << >>,
      sala_elegida  |-> 0,
      sala_turnos   |-> << >>,
      turno         |-> << >>,
      res_id        |-> 0,
      desde         |-> 0,      \* editar_nombre_evento: desde
      rows          |-> << >>,
      clave_id      |-> 0,
      table         |-> << >> ] \* consultar_reservaciones: table

Max(S) == CHOOSE x \in S : \A y \in S : y <= x

Min(S) == CHOOSE x \in S : \A y \in S : x <= y

\* lastrowid of an insert into an AUTOINCREMENT table without deletions.
SiguienteId(ids) == IF ids = {} THEN 1 ELSE Max(ids) + 1

RECURSIVE Ascendente(_)
Ascendente(S) ==
    IF S = {} THEN << >> ELSE <<Min(S)>> \o Ascendente(S \ {Min(S)})

\* listar_clientes: the ids of the rows of clientes.
listar_clientes == clientes

\* listar_salas: SELECT ... FROM salas ORDER BY id.
listar_salas == Ascendente(salas)

\* solicitar_fecha_minima
solicitar_fecha_minima == hoy + 2

\* Variant: the day shifted is Saturday.
es_sabado(d) == weekday(d) = 5

\* es_domingo
es_domingo(d) == weekday(d) = 6

\* generar_folio
generar_folio(res_id) == <<"R">> \o RellenaCeros(Decimal(res_id), 6)

\* Variant: the count ignores the date.
CuentaSinFecha(s_id, fecha, t) ==
    Cardinality({r \in reservaciones : r.sala_id = s_id /\ r.turno = t})

\* SELECT COUNT(1) FROM reservaciones WHERE sala_id=? AND fecha=? AND turno=?
Cuenta(s_id, fecha, t) ==
    Cardinality({r \in reservaciones :
                    r.sala_id = s_id /\ r.fecha = fecha /\ r.turno = t})

\* Variant: only UNIQUE(folio) is declared.
ViolaUnicidadSoloFolio(fila) ==
    \E r \in reservaciones : r.folio = fila.folio

\* Variant: the slot constraint also names the client.
ViolaUnicidadMismoCliente(fila) ==
    \E r \in reservaciones :
        \/ r.folio = fila.folio
        \/ /\ r.sala_id = fila.sala_id /\ r.fecha = fila.fecha /\ r.turno = fila.turno
           /\ r.cliente_id = fila.cliente_id

\* The constraints of table reservaciones that an INSERT can violate:
\* UNIQUE(folio) and UNIQUE(sala_id, fecha, turno).
ViolaUnicidad(fila) ==
    \E r \in reservaciones :
        \/ r.folio = fila.folio
        \/ r.sala_id = fila.sala_id /\ r.fecha = fila.fecha /\ r.turno = fila.turno

\* Variant: the rejected row stays in the table.
InsertarSinDeshacer(fila) == reservaciones \cup {fila}

\* The table after INSERT of fila and commit: a statement that raises
\* IntegrityError is rolled back when the connection is closed.
Insertar(fila) ==
    IF ViolaUnicidad(fila) THEN reservaciones ELSE reservaciones \cup {fila}

\* Variant: every text is taken as listed.
EnSecuenciaSiempre(x, s) == TRUE

EnSecuencia(x, s) == \E i \in 1..Len(s) : s[i] = x

\* Instance p moves to prompt q holding locals l, having printed m and
\* having had the INSERT of the rows f rejected.
Paso(p, q, l, m, f) ==
    /\ pc' = [pc EXCEPT ![p] = q]
    /\ loc' = [loc EXCEPT ![p] = l]
    /\ msg' = [msg EXCEPT ![p] = m]
    /\ rechazada' = [rechazada EXCEPT ![p] = f]

Pasa(p, q, l, m) == Paso(p, q, l, m, {})

\* A statement on the file raises sqlite3.DatabaseError, or a call raises
\* OverflowError or OSError; nothing catches it and the instance ends.
Muere(p) == Pasa(p, "fin", SinLocales, "")

\* The calendar day changes while the instances wait for input.
Medianoche ==
    /\ hoy < HoyInicial + MaxDias
    /\ hoy' = hoy + 1
    /\ UNCHANGED <<base, clientes, salas, reservaciones, pc, loc, msg, rechazada>>

(* ------------------------------------------------------------------ *)
(* Menu options 4 and 5, registrar_cliente and registrar_sala          *)
(* ------------------------------------------------------------------ *)

\* The instances that are inside registrar_cliente.
RegistrandoCliente == {p \in Procs : pc[p] \in {"nombre_cliente", "apellidos"}}

\* The instances that are inside registrar_sala.
RegistrandoSala == {p \in Procs : pc[p] \in {"nombre_sala", "cupo"}}

\* Menu option 4: the instance waits at the name prompt.
IniciaRegistroCliente(p) ==
    /\ pc[p] = "menu"
    /\ Cardinality(clientes) + Cardinality(RegistrandoCliente) < MaxClientes
    /\ Pasa(p, "nombre_cliente", SinLocales, "")
    /\ UNCHANGED <<base, hoy, clientes, salas, reservaciones>>

\* Lines 82-86.
NombraCliente(p, entrada) ==
    /\ pc[p] = "nombre_cliente"
    /\ LET nombre == strip(entrada) IN
       IF nombre # << >>
       THEN Pasa(p, "apellidos", [SinLocales EXCEPT !.nombre = nombre], "")
       ELSE Pasa(p, "nombre_cliente", loc[p], "")
    /\ UNCHANGED <<base, hoy, clientes, salas, reservaciones>>

\* Lines 87-98: the INSERT follows the first surname that is not blank.
RegistrarCliente(p, entrada) ==
    /\ pc[p] = "apellidos"
    /\ LET apellidos == strip(entrada) IN
       IF apellidos # << >> /\ ~base
       THEN /\ UNCHANGED clientes
            /\ Muere(p)
       ELSE IF apellidos # << >>
       THEN /\ clientes' = clientes \cup {SiguienteId(clientes)}
            /\ Pasa(p, "menu", SinLocales, "")
       ELSE /\ UNCHANGED clientes
            /\ Pasa(p, "apellidos", loc[p], "")
    /\ UNCHANGED <<base, hoy, salas, reservaciones>>

\* Menu option 5: the instance waits at the name prompt.
IniciaRegistroSala(p) ==
    /\ pc[p] = "menu"
    /\ Cardinality(salas) + Cardinality(RegistrandoSala) < MaxSalas
    /\ Pasa(p, "nombre_sala", SinLocales, "")
    /\ UNCHANGED <<base, hoy, clientes, salas, reservaciones>>

\* Lines 119-123.
NombraSala(p, entrada) ==
    /\ pc[p] = "nombre_sala"
    /\ LET nombre == strip(entrada) IN
       IF nombre # << >>
       THEN Pasa(p, "cupo", [SinLocales EXCEPT !.nombre = nombre], "")
       ELSE Pasa(p, "nombre_sala", loc[p], "")
    /\ UNCHANGED <<base, hoy, clientes, salas, reservaciones>>

\* Lines 124-139: the INSERT follows the first cupo that is an integer > 0;
\* it raises OverflowError for a cupo that SQLite cannot store.
RegistrarSala(p, entrada) ==
    /\ pc[p] = "cupo"
    /\ LET texto == strip(entrada) IN
       IF ~EsEntero(texto)
       THEN /\ UNCHANGED salas
            /\ Pasa(p, "cupo", loc[p], "")
       ELSE IF ~Negativo(texto) /\ ExcedeSQLite(Cifras(texto))
       THEN /\ UNCHANGED salas
            /\ Muere(p)
       ELSE IF int(texto)[1] > 0 /\ ~base
       THEN /\ UNCHANGED salas
            /\ Muere(p)
       ELSE IF int(texto)[1] > 0
       THEN /\ salas' = salas \cup {SiguienteId(salas)}
            /\ Pasa(p, "menu", SinLocales, "")
       ELSE /\ UNCHANGED salas
            /\ Pasa(p, "cupo", loc[p], "")
    /\ UNCHANGED <<base, hoy, clientes, reservaciones>>

(* ------------------------------------------------------------------ *)
(* Menu option 1, registrar_reservacion                                *)
(* ------------------------------------------------------------------ *)

\* The instances that are inside registrar_reservacion before its INSERT.
Reservando ==
    {p \in Procs :
        pc[p] \in {"cliente", "fecha", "domingo", "escaneo", "sala", "turno", "evento"}}

\* Lines 188-191: the list of clients is read once, on entry.
IniciaReservacion(p) ==
    /\ pc[p] = "menu"
    /\ Cardinality(reservaciones) + Cardinality(Reservando) < MaxReservas
    /\ IF ~base
       THEN Muere(p)
       ELSE IF listar_clientes = {}
       THEN Pasa(p, "menu", SinLocales, "")
       ELSE Pasa(p, "cliente", [SinLocales EXCEPT !.clientes = listar_clientes], "")
    /\ UNCHANGED <<base, hoy, clientes, salas, reservaciones>>

\* Variant: any integer key is taken as a client.
SeleccionaClienteSinLista(p, entrada) ==
    /\ pc[p] = "cliente"
    /\ LET clave == strip(entrada) IN
       IF lower(clave) = <<"c">>
       THEN Pasa(p, "menu", SinLocales, "")
       ELSE IF int(clave) # << >>
       THEN Pasa(p, "fecha",
                 [SinLocales EXCEPT !.cliente_id = int(clave)[1],
                                    !.min_fecha = solicitar_fecha_minima], "")
       ELSE IF ~base
       THEN Muere(p)
       ELSE Pasa(p, "cliente", loc[p], "")
    /\ UNCHANGED <<base, hoy, clientes, salas, reservaciones>>

\* Lines 192-206: the client prompt; min_fecha is computed on leaving it.
\* Before the prompt is asked again mostrar_clientes reads the table.
SeleccionaCliente(p, entrada) ==
    /\ pc[p] = "cliente"
    /\ LET clave == strip(entrada) IN
       IF lower(clave) = <<"c">>
       THEN Pasa(p, "menu", SinLocales, "")
       ELSE IF int(clave) # << >> /\ int(clave)[1] \in loc[p].clientes
       THEN Pasa(p, "fecha",
                 [SinLocales EXCEPT !.cliente_id = int(clave)[1],
                                    !.min_fecha = solicitar_fecha_minima], "")
       ELSE IF ~base
       THEN Muere(p)
       ELSE Pasa(p, "cliente", loc[p], "")
    /\ UNCHANGED <<base, hoy, clientes, salas, reservaciones>>

\* The locals that are live at the date prompt.
EnFecha(p) ==
    [SinLocales EXCEPT !.cliente_id = loc[p].cliente_id,
                       !.min_fecha = loc[p].min_fecha]

\* Lines 224 and 165-167: salas_disponibles_para_fecha is entered for the
\* finalized date d, which passed the check of line 213 on the day
\* validada, and reads the rooms; without rooms nothing is counted.
IniciaEscaneo(p, d, validada) ==
    IF ~base
    THEN Muere(p)
    ELSE IF listar_salas = << >>
    THEN Pasa(p, "fecha", EnFecha(p), "")
    ELSE Pasa(p, "escaneo",
              [SinLocales EXCEPT !.cliente_id = loc[p].cliente_id,
                                 !.min_fecha = loc[p].min_fecha,
                                 !.hoy_validada = validada,
                                 !.d = d,
                                 !.salas = listar_salas,
                                 !.i = 1,
                                 !.j = 1], "")

\* Lines 171-177 and 225-228: one SELECT COUNT(1) of the scan, for room
\* salas[i] and shift TURNOS[j]; after the last one the list is returned.
CuentaTurno(p) ==
    /\ pc[p] = "escaneo"
    /\ IF ~base
       THEN Muere(p)
       ELSE
         LET l     == loc[p]
             s_id  == l.salas[l.i]
             t     == TURNOS[l.j]
             turnos_libres ==
                 l.turnos_libres
                    \o (IF Cuenta(s_id, strftime(l.d), t) = 0 THEN <<t>> ELSE << >>)
             disponibles ==
                 l.disponibles
                    \o (IF turnos_libres # << >>
                        THEN << <<s_id, turnos_libres>> >> ELSE << >>)
         IN IF l.j < Len(TURNOS)
            THEN Pasa(p, "escaneo",
                      [l EXCEPT !.j = l.j + 1, !.turnos_libres = turnos_libres], "")
            ELSE IF l.i < Len(l.salas)
            THEN Pasa(p, "escaneo",
                      [l EXCEPT !.i = l.i + 1, !.j = 1,
                                !.turnos_libres = << >>,
                                !.disponibles = disponibles], "")
            ELSE IF disponibles = << >>
            THEN Pasa(p, "fecha", EnFecha(p), "")
            ELSE Pasa(p, "sala",
                      [SinLocales EXCEPT !.cliente_id = l.cliente_id,
                                         !.hoy_validada = l.hoy_validada,
                                         !.d = l.d,
                                         !.disponibles = disponibles], "")
    /\ UNCHANGED <<base, hoy, clientes, salas, reservaciones>>

\* Lines 207-228: the date prompt.
IngresaFecha(p, entrada) ==
    /\ pc[p] = "fecha"
    /\ LET d == parsear_fecha(strip(entrada)) IN
       IF d = << >>
       THEN Pasa(p, "fecha", loc[p], "")
       ELSE IF d[1] < loc[p].min_fecha
       THEN Pasa(p, "fecha", loc[p], "")
       ELSE IF es_domingo(d[1])
       THEN Pasa(p, "domingo",
                 [loc[p] EXCEPT !.d = d[1], !.hoy_validada = hoy], "")
       ELSE IniciaEscaneo(p, d[1], hoy)
    /\ UNCHANGED <<base, hoy, clientes, salas, reservaciones>>

\* Lines 217-223: the confirmation of the proposed Monday.
ConfirmaLunes(p, entrada) ==
    /\ pc[p] = "domingo"
    /\ LET propuesta == loc[p].d + 1
           aceptar == lower(strip(entrada))
       IN IF aceptar = <<"s">>
          THEN IniciaEscaneo(p, propuesta, loc[p].hoy_validada)
          ELSE Pasa(p, "fecha", EnFecha(p), "")
    /\ UNCHANGED <<base, hoy, clientes, salas, reservaciones>>

\* Lines 234-247: the room prompt.
SeleccionaSala(p, entrada) ==
    /\ pc[p] = "sala"
    /\ LET sala_elegida == int(strip(entrada))
           disponibles == loc[p].disponibles
       IN IF sala_elegida = << >>
          THEN Pasa(p, "sala", loc[p], "")
          ELSE IF sala_elegida[1] = 0
          THEN Pasa(p, "menu", SinLocales, "")
          ELSE IF \E i \in 1..Len(disponibles) : disponibles[i][1] = sala_elegida[1]
          THEN LET i == CHOOSE i \in 1..Len(disponibles) :
                            disponibles[i][1] = sala_elegida[1]
               IN Pasa(p, "turno",
                       [loc[p] EXCEPT !.sala_elegida = sala_elegida[1],
                                      !.sala_turnos = disponibles[i][2],
                                      !.disponibles = << >>], "")
          ELSE Pasa(p, "sala", loc[p], "")
    /\ UNCHANGED <<base, hoy, clientes, salas, reservaciones>>

\* Lines 248-252: the shift prompt.
SeleccionaTurno(p, entrada) ==
    /\ pc[p] = "turno"
    /\ LET turno == strip(entrada) IN
       IF EnSecuencia(turno, loc[p].sala_turnos)
       THEN Pasa(p, "evento",
                 [loc[p] EXCEPT !.turno = turno, !.sala_turnos = << >>], "")
       ELSE Pasa(p, "turno", loc[p], "")
    /\ UNCHANGED <<base, hoy, clientes, salas, reservaciones>>

\* The row that lines 262-263 insert, with the placeholder folio "".
FilaNueva(p, nombre_evento) ==
    [ id            |-> SiguienteId({r.id : r \in reservaciones}),
      folio         |-> << >>,
      cliente_id    |-> loc[p].cliente_id,
      sala_id       |-> loc[p].sala_elegida,
      fecha         |-> strftime(loc[p].d),
      turno         |-> loc[p].turno,
      nombre_evento |-> nombre_evento ]

\* Lines 253-264 and 270-273: the event-name prompt, then INSERT and the
\* first commit; an IntegrityError rolls the INSERT back.
NombraEvento(p, entrada) ==
    /\ pc[p] = "evento"
    /\ LET nombre_evento == strip(entrada) IN
       IF nombre_evento = << >>
       THEN /\ Pasa(p, "evento", loc[p], "")
            /\ UNCHANGED reservaciones
       ELSE IF ~base
       THEN /\ Muere(p)
            /\ UNCHANGED reservaciones
       ELSE LET fila == FilaNueva(p, nombre_evento) IN
            /\ reservaciones' = Insertar(fila)
            /\ IF ViolaUnicidad(fila)
               THEN Paso(p, "menu", SinLocales, "Conflict", {fila})
               ELSE Paso(p, "folio", [SinLocales EXCEPT !.res_id = fila.id], "", {})
    /\ UNCHANGED <<base, hoy, clientes, salas>>

\* Lines 265-273: the folio is patched in and committed.
AsignaFolio(p) ==
    /\ pc[p] = "folio"
    /\ LET folio == generar_folio(loc[p].res_id) IN
       IF ~base
       THEN /\ UNCHANGED reservaciones
            /\ Muere(p)
       ELSE IF \E r \in reservaciones : r.id # loc[p].res_id /\ r.folio = folio
       THEN /\ UNCHANGED reservaciones
            /\ Pasa(p, "menu", SinLocales, "Conflict")
       ELSE /\ reservaciones' =
                  {IF r.id = loc[p].res_id THEN [r EXCEPT !.folio = folio] ELSE r :
                      r \in reservaciones}
            /\ Pasa(p, "menu", SinLocales, "Registrada")
    /\ UNCHANGED <<base, hoy, clientes, salas>>

(* ------------------------------------------------------------------ *)
(* Menu option 2, editar_nombre_evento                                 *)
(* ------------------------------------------------------------------ *)

\* ORDER BY fecha: the texts are compared; rows of equal fecha are taken in
\* rowid order.
MenorRango(a, b) ==
    TextoMenor(a.fecha, b.fecha) \/ (a.fecha = b.fecha /\ a.id < b.id)

RECURSIVE OrdenRango(_)
OrdenRango(S) ==
    IF S = {} THEN << >>
    ELSE LET m == CHOOSE x \in S : \A y \in S : ~MenorRango(y, x)
         IN << <<m.id, m.folio, m.nombre_evento, m.fecha>> >> \o OrdenRango(S \ {m})

\* Lines 292-294: SELECT id, folio, nombre_evento, fecha FROM reservaciones
\* WHERE fecha BETWEEN ? AND ? ORDER BY fecha.
SeleccionaRango(desde, hasta) ==
    OrdenRango({r \in reservaciones :
                   /\ TextoMenorIgual(strftime(desde), r.fecha)
                   /\ TextoMenorIgual(r.fecha, strftime(hasta))})

IniciaEdicion(p) ==
    /\ pc[p] = "menu"
    /\ Pasa(p, "desde", SinLocales, "")
    /\ UNCHANGED <<base, hoy, clientes, salas, reservaciones>>

\* Lines 278-283.
IngresaDesde(p, entrada) ==
    /\ pc[p] = "desde"
    /\ LET desde == parsear_fecha(strip(entrada)) IN
       IF desde # << >>
       THEN Pasa(p, "hasta", [SinLocales EXCEPT !.desde = desde[1]], "")
       ELSE Pasa(p, "desde", loc[p], "")
    /\ UNCHANGED <<base, hoy, clientes, salas, reservaciones>>

\* Lines 284-300.
IngresaHasta(p, entrada) ==
    /\ pc[p] = "hasta"
    /\ LET hasta == parsear_fecha(strip(entrada)) IN
       IF hasta # << >> /\ hasta[1] >= loc[p].desde /\ ~base
       THEN Muere(p)
       ELSE IF hasta # << >> /\ hasta[1] >= loc[p].desde
       THEN LET rows == SeleccionaRango(loc[p].desde, hasta[1]) IN
            IF rows = << >>
            THEN Pasa(p, "menu", SinLocales, "")
            ELSE Pasa(p, "clave", [SinLocales EXCEPT !.rows = rows], "")
       ELSE Pasa(p, "hasta", loc[p], "")
    /\ UNCHANGED <<base, hoy, clientes, salas, reservaciones>>

\* Variant: cancelling at the key prompt deletes the rows listed.
SeleccionaEventoBorra(p, entrada) ==
    /\ pc[p] = "clave"
    /\ LET clave == strip(entrada)
           rows == loc[p].rows
       IN IF lower(clave) = <<"c">>
          THEN /\ Pasa(p, "menu", SinLocales, "")
               /\ reservaciones' =
                     {r \in reservaciones :
                         ~\E i \in 1..Len(rows) : rows[i][1] = r.id}
          ELSE /\ UNCHANGED reservaciones
               /\ IF int(clave) # << >>
                     /\ \E i \in 1..Len(rows) : rows[i][1] = int(clave)[1]
                  THEN Pasa(p, "nuevo", [SinLocales EXCEPT !.clave_id = int(clave)[1]], "")
                  ELSE Pasa(p, "clave", loc[p], "")
    /\ UNCHANGED <<base, hoy, clientes, salas>>

\* Lines 301-314.
SeleccionaEvento(p, entrada) ==
    /\ pc[p] = "clave"
    /\ LET clave == strip(entrada)
           rows == loc[p].rows
       IN IF lower(clave) = <<"c">>
          THEN Pasa(p, "menu", SinLocales, "")
          ELSE IF int(clave) # << >>
                  /\ \E i \in 1..Len(rows) : rows[i][1] = int(clave)[1]
          THEN Pasa(p, "nuevo", [SinLocales EXCEPT !.clave_id = int(clave)[1]], "")
          ELSE Pasa(p, "clave", loc[p], "")
    /\ UNCHANGED <<base, hoy, clientes, salas, reservaciones>>

\* Lines 315-323.
RenombraEvento(p, entrada) ==
    /\ pc[p] = "nuevo"
    /\ LET nuevo_nombre == strip(entrada) IN
       IF nuevo_nombre # << >> /\ ~base
       THEN /\ UNCHANGED reservaciones
            /\ Muere(p)
       ELSE IF nuevo_nombre # << >>
       THEN /\ reservaciones' =
                  {IF r.id = loc[p].clave_id
                      THEN [r EXCEPT !.nombre_evento = nuevo_nombre]
                      ELSE r : r \in reservaciones}
            /\ Pasa(p, "menu", SinLocales, "")
       ELSE /\ UNCHANGED reservaciones
            /\ Pasa(p, "nuevo", loc[p], "")
    /\ UNCHANGED <<base, hoy, clientes, salas>>

(* ------------------------------------------------------------------ *)
(* Menu option 3, consultar_reservaciones                              *)
(* ------------------------------------------------------------------ *)

\* ORDER BY r.turno, s.id: turno is a TEXT column.
MenorConsulta(a, b) ==
    TextoMenor(a.turno, b.turno) \/ (a.turno = b.turno /\ a.sala_id < b.sala_id)

RECURSIVE OrdenConsulta(_)
OrdenConsulta(S) ==
    IF S = {} THEN << >>
    ELSE LET m == CHOOSE x \in S : \A y \in S : ~MenorConsulta(y, x)
         IN << [folio |-> m.folio, nombre_evento |-> m.nombre_evento,
                fecha |-> m.fecha, turno |-> m.turno,
                sala_id |-> m.sala_id, cliente_id |-> m.cliente_id] >>
               \o OrdenConsulta(S \ {m})

\* Lines 338-344: the reservations of a date joined with salas and clientes.
SeleccionaFecha(fecha_str) ==
    OrdenConsulta({r \in reservaciones :
                      /\ r.fecha = fecha_str
                      /\ r.sala_id \in salas
                      /\ r.cliente_id \in clientes})

\* Menu option 3: the instance waits at the date prompt of line 327.
IniciaConsulta(p) ==
    /\ pc[p] = "menu"
    /\ Pasa(p, "consulta", SinLocales, "")
    /\ UNCHANGED <<base, hoy, clientes, salas, reservaciones>>

\* Lines 327-352.
ConsultarReservaciones(p, entrada) ==
    /\ pc[p] = "consulta"
    /\ LET texto == strip(entrada)
           d == IF texto = << >> \/ parsear_fecha(texto) = << >>
                THEN hoy ELSE parsear_fecha(texto)[1]
           rows == SeleccionaFecha(strftime(d))
       IN IF ~base
          THEN Muere(p)
          ELSE IF rows = << >>
          THEN Pasa(p, "menu", SinLocales, "")
          ELSE Pasa(p, "exportar", [SinLocales EXCEPT !.table = rows], "")
    /\ UNCHANGED <<base, hoy, clientes, salas, reservaciones>>

\* Lines 353-361.
Exportar(p, entrada) ==
    /\ pc[p] = "exportar"
    /\ LET opc == lower(strip(entrada)) IN
       IF opc = <<"s">> THEN Pasa(p, "formato", loc[p], "")
       ELSE IF opc = <<"n">> THEN Pasa(p, "menu", SinLocales, "")
       ELSE Pasa(p, "exportar", loc[p], "")
    /\ UNCHANGED <<base, hoy, clientes, salas, reservaciones>>

\* exportar_reporte, the format prompt: a format leads to the prompt for
\* the name of its file.
ExportarReporte(p, entrada) ==
    /\ pc[p] = "formato"
    /\ LET opc == lower(strip(entrada)) IN
       IF opc = <<"c">> THEN Pasa(p, "menu", SinLocales, "")
       ELSE IF opc \in {<<"1">>, <<"2">>, <<"3">>} THEN Pasa(p, "archivo", loc[p], "")
       ELSE Pasa(p, "formato", loc[p], "")
    /\ UNCHANGED <<base, hoy, clientes, salas, reservaciones>>

\* What a name over Alfabeto, which has no path separator, denotes in the
\* working directory, where the database file is: a name longer than
\* NAME_MAX and the names of the directory itself cannot be opened.
Destino(nombre) ==
    IF Len(nombre) > NAME_MAX \/ nombre \in {<<".">>, <<".", ".">>} THEN "error"
    ELSE IF nombre = DB_FILE THEN "bd"
    ELSE "otro"

\* exportar_reporte, the file-name prompt: the report is written over the
\* file of that name, the default name when the text is blank.  Written
\* over the database file it leaves no database; a file that cannot be
\* opened raises OSError, which ends the instance.
NombraArchivo(p, entrada) ==
    /\ pc[p] = "archivo"
    /\ LET nombre == strip(entrada)
           destino == IF nombre = << >> THEN "otro" ELSE Destino(nombre)
       IN IF destino = "error"
          THEN /\ Muere(p)
               /\ UNCHANGED <<base, clientes, salas, reservaciones>>
          ELSE IF destino = "bd"
          THEN /\ base' = FALSE
               /\ clientes' = {}
               /\ salas' = {}
               /\ reservaciones' = {}
               /\ Pasa(p, "menu", SinLocales, "")
          ELSE /\ Pasa(p, "menu", SinLocales, "")
               /\ UNCHANGED <<base, clientes, salas, reservaciones>>
    /\ UNCHANGED hoy

(* ------------------------------------------------------------------ *)
(* Specifications                                                      *)
(* ------------------------------------------------------------------ *)

\* Spec: one instance runs the whole menu on a new database file, and the
\* calendar day may change while it waits.
Init ==
    /\ base = TRUE
    /\ hoy = HoyInicial
    /\ clientes = {}
    /\ salas = {}
    /\ reservaciones = {}
    /\ pc = [p \in Procs |-> "menu"]
    /\ loc = [p \in Procs |-> SinLocales]
    /\ msg = [p \in Procs |-> ""]
    /\ rechazada = [p \in Procs |-> {}]

Next ==
    \/ Medianoche
    \/ IniciaRegistroCliente("p1")
    \/ \E entrada \in NombresIn : NombraCliente("p1", entrada)
    \/ \E entrada \in NombresIn : RegistrarCliente("p1", entrada)
    \/ IniciaRegistroSala("p1")
    \/ \E entrada \in NombresIn : NombraSala("p1", entrada)
    \/ \E entrada \in CuposIn : RegistrarSala("p1", entrada)
    \/ IniciaReservacion("p1")
    \/ \E entrada \in ClavesIn : SeleccionaCliente("p1", entrada)
    \/ \E entrada \in FechasIn : IngresaFecha("p1", entrada)
    \/ \E entrada \in SiNoIn : ConfirmaLunes("p1", entrada)
    \/ CuentaTurno("p1")
    \/ \E entrada \in ClavesIn : SeleccionaSala("p1", entrada)
    \/ \E entrada \in TurnosIn : SeleccionaTurno("p1", entrada)
    \/ \E entrada \in EventosIn : NombraEvento("p1", entrada)
    \/ AsignaFolio("p1")
    \/ IniciaEdicion("p1")
    \/ \E entrada \in RangoIn : IngresaDesde("p1", entrada)
    \/ \E entrada \in RangoIn : IngresaHasta("p1", entrada)
    \/ \E entrada \in ClavesIn : SeleccionaEvento("p1", entrada)
    \/ \E entrada \in NuevosIn : RenombraEvento("p1", entrada)
    \/ IniciaConsulta("p1")
    \/ \E entrada \in ConsultaIn : ConsultarReservaciones("p1", entrada)
    \/ \E entrada \in SiNoIn : Exportar("p1", entrada)
    \/ \E entrada \in FormatosIn : ExportarReporte("p1", entrada)
    \/ \E entrada \in ArchivosIn : NombraArchivo("p1", entrada)

Spec == Init /\ [][Next]_vars

\* SpecDos: two instances book concurrently on a database file that earlier
\* runs left with two clients and one room.
InitDos ==
    /\ base = TRUE
    /\ hoy = HoyInicial
    /\ clientes = {1, 2}
    /\ salas = {1}
    /\ reservaciones = {}
    /\ pc = [p \in Procs |-> "menu"]
    /\ loc = [p \in Procs |-> SinLocales]
    /\ msg = [p \in Procs |-> ""]
    /\ rechazada = [p \in Procs |-> {}]

NextDos ==
    \/ \E p \in Procs : IniciaReservacion(p)
    \/ \E p \in Procs, entrada \in ClavesIn : SeleccionaCliente(p, entrada)
    \/ \E p \in Procs, entrada \in FechasIn : IngresaFecha(p, entrada)
    \/ \E p \in Procs, entrada \in SiNoIn : ConfirmaLunes(p, entrada)
    \/ \E p \in Procs : CuentaTurno(p)
    \/ \E p \in Procs, entrada \in ClavesIn : SeleccionaSala(p, entrada)
    \/ \E p \in Procs, entrada \in TurnosIn : SeleccionaTurno(p, entrada)
    \/ \E p \in Procs, entrada \in EventosIn : NombraEvento(p, entrada)
    \/ \E p \in Procs : AsignaFolio(p)

SpecDos == InitDos /\ [][NextDos]_vars

\* SpecLecturas: the operations that only read, applied by one instance to
\* every store of at most MaxFilas reservations of two rooms on two Mondays.
Casillas ==
    LET fechas == <<F_12_29_2025, F_01_05_2026>> IN
    [i \in 1..12 |->
        [ sala_id |-> ((i - 1) % 2) + 1,
          turno   |-> TURNOS[(((i - 1) \div 2) % 3) + 1],
          fecha   |-> fechas[((i - 1) \div 6) + 1] ]]

\* The store after the slots with index in I were booked in index order.
Almacen(I) ==
    { [ id            |-> Cardinality({j \in I : j <= i}),
        folio         |-> generar_folio(Cardinality({j \in I : j <= i})),
        cliente_id    |-> 1,
        sala_id       |-> Casillas[i].sala_id,
        fecha         |-> Casillas[i].fecha,
        turno         |-> Casillas[i].turno,
        nombre_evento |-> <<"B", "o", "d", "a">> ] : i \in I }

InitLecturas ==
    /\ base = TRUE
    /\ hoy = HoyInicial
    /\ clientes = {1}
    /\ salas = {1, 2}
    /\ \E I \in SUBSET (1..12) :
          /\ Cardinality(I) <= MaxFilas
          /\ reservaciones = Almacen(I)
    /\ pc \in {[p \in Procs |-> IF p = "p1" THEN q ELSE "menu"] : q \in {"menu", "fecha"}}
    /\ loc = [p \in Procs |->
                IF pc[p] = "fecha"
                THEN [SinLocales EXCEPT !.cliente_id = 1, !.min_fecha = hoy + 2]
                ELSE SinLocales]
    /\ msg = [p \in Procs |-> ""]
    /\ rechazada = [p \in Procs |-> {}]

NextLecturas ==
    \/ \E entrada \in FechasIn : IngresaFecha("p1", entrada)
    \/ \E entrada \in SiNoIn : ConfirmaLunes("p1", entrada)
    \/ CuentaTurno("p1")
    \/ IniciaEdicion("p1")
    \/ \E entrada \in RangoIn : IngresaDesde("p1", entrada)
    \/ \E entrada \in RangoIn : IngresaHasta("p1", entrada)
    \/ \E entrada \in ClavesIn : SeleccionaEvento("p1", entrada)
    \/ IniciaConsulta("p1")
    \/ \E entrada \in ConsultaIn : ConsultarReservaciones("p1", entrada)
    \/ \E entrada \in SiNoIn : Exportar("p1", entrada)
    \/ \E entrada \in FormatosIn : ExportarReporte("p1", entrada)
    \/ \E entrada \in ArchivosIn : NombraArchivo("p1", entrada)

SpecLecturas == InitLecturas /\ [][NextLecturas]_vars

\* SpecEdicion: on a database file with one client and one room, one
\* instance books while the other edits event names and queries dates.
InitEdicion ==
    /\ base = TRUE
    /\ hoy = HoyInicial
    /\ clientes = {1}
    /\ salas = {1}
    /\ reservaciones = {}
    /\ pc = [p \in Procs |-> "menu"]
    /\ loc = [p \in Procs |-> SinLocales]
    /\ msg = [p \in Procs |-> ""]
    /\ rechazada = [p \in Procs |-> {}]

NextEdicion ==
    \/ IniciaReservacion("p1")
    \/ \E entrada \in ClavesIn : SeleccionaCliente("p1", entrada)
    \/ \E entrada \in FechasIn : IngresaFecha("p1", entrada)
    \/ \E entrada \in SiNoIn : ConfirmaLunes("p1", entrada)
    \/ CuentaTurno("p1")
    \/ \E entrada \in ClavesIn : SeleccionaSala("p1", entrada)
    \/ \E entrada \in TurnosIn : SeleccionaTurno("p1", entrada)
    \/ \E entrada \in EventosIn : NombraEvento("p1", entrada)
    \/ AsignaFolio("p1")
    \/ IniciaEdicion("p2")
    \/ \E entrada \in RangoIn : IngresaDesde("p2", entrada)
    \/ \E entrada \in RangoIn : IngresaHasta("p2", entrada)
    \/ \E entrada \in ClavesIn : SeleccionaEvento("p2", entrada)
    \/ \E entrada \in NuevosIn : RenombraEvento("p2", entrada)
    \/ IniciaConsulta("p2")
    \/ \E entrada \in ConsultaIn : ConsultarReservaciones("p2", entrada)
    \/ \E entrada \in SiNoIn : Exportar("p2", entrada)
    \/ \E entrada \in FormatosIn : ExportarReporte("p2", entrada)
    \/ \E entrada \in ArchivosIn : NombraArchivo("p2", entrada)

SpecEdicion == InitEdicion /\ [][NextEdicion]_vars

\* SpecRegistro: on a new database file one instance books while the other
\* registers clients and rooms.
NextRegistro ==
    \/ IniciaRegistroCliente("p2")
    \/ \E entrada \in NombresIn : NombraCliente("p2", entrada)
    \/ \E entrada \in NombresIn : RegistrarCliente("p2", entrada)
    \/ IniciaRegistroSala("p2")
    \/ \E entrada \in NombresIn : NombraSala("p2", entrada)
    \/ \E entrada \in CuposIn : RegistrarSala("p2", entrada)
    \/ IniciaReservacion("p1")
    \/ \E entrada \in ClavesIn : SeleccionaCliente("p1", entrada)
    \/ \E entrada \in FechasIn : IngresaFecha("p1", entrada)
    \/ \E entrada \in SiNoIn : ConfirmaLunes("p1", entrada)
    \/ CuentaTurno("p1")
    \/ \E entrada \in ClavesIn : SeleccionaSala("p1", entrada)
    \/ \E entrada \in TurnosIn : SeleccionaTurno("p1", entrada)
    \/ \E entrada \in EventosIn : NombraEvento("p1", entrada)
    \/ AsignaFolio("p1")

SpecRegistro == Init /\ [][NextRegistro]_vars

(* ------------------------------------------------------------------ *)
(* Properties                                                          *)
(* ------------------------------------------------------------------ *)

\* The calendar date that a stored text denotes.
FechaDe(r) == parsear_fecha(r.fecha)

\* Reservation r holds room s on date d (an ordinal) for shift t.
Ocupa(r, s, d, t) == r.sala_id = s /\ FechaDe(r) = <<d>> /\ r.turno = t

\* The (room, date, shift) that instance p has selected is already reserved.
SeleccionOcupada(p) ==
    \E r \in reservaciones :
        Ocupa(r, loc[p].sala_elegida, loc[p].d, loc[p].turno)

MismaSeleccion(p, q) ==
    /\ loc[p].sala_elegida = loc[q].sala_elegida
    /\ loc[p].d = loc[q].d
    /\ loc[p].turno = loc[q].turno

\* C1: in every reachable state, no two reservations have the same room,
\* the same calendar date and the same shift.
C1_SinDobleReserva ==
    \A r1, r2 \in reservaciones :
        r1 # r2 =>
            ~(r1.sala_id = r2.sala_id /\ r1.turno = r2.turno /\ FechaDe(r1) = FechaDe(r2))

\* Two workflows selected the same free shift, one has inserted its row and
\* the other is about to insert.
C1_Testigo ==
    \E p, q \in Procs :
        /\ pc[p] = "folio"
        /\ pc[q] = "evento"
        /\ \E r \in reservaciones :
              /\ r.id = loc[p].res_id
              /\ Ocupa(r, loc[q].sala_elegida, loc[q].d, loc[q].turno)

\* C2: a step that leaves the event-name prompt (so it runs the INSERT) for
\* a selection that is already reserved prints Conflict, leaves the table as
\* it was and ends the workflow at the menu with its selection dropped; and
\* when two workflows wait with the same selection, the first INSERT succeeds
\* and leaves the selection of the other reserved.
C2_Paso ==
    \A p \in Procs :
        /\ (pc[p] = "evento" /\ pc'[p] # "evento" /\ SeleccionOcupada(p))
              => /\ msg'[p] = "Conflict"
                 /\ reservaciones' = reservaciones
                 /\ pc'[p] = "menu"
                 /\ loc'[p] = SinLocales
        /\ \A q \in Procs \ {p} :
              (pc[p] = "evento" /\ pc[q] = "evento" /\ MismaSeleccion(p, q)
                    /\ pc'[p] # "evento")
                 => /\ pc'[p] = "folio"
                    /\ Cardinality(reservaciones') = Cardinality(reservaciones) + 1
                    /\ \E r \in reservaciones' :
                          /\ r.id = loc'[p].res_id
                          /\ Ocupa(r, loc[q].sala_elegida, loc[q].d, loc[q].turno)

C2_ConflictoSiOcupada == [][C2_Paso]_vars

\* The loser of a race: its INSERT was rejected for a slot that a row of
\* another client holds.
C2_Testigo ==
    \E p \in Procs :
        /\ msg[p] = "Conflict"
        /\ \E f \in rechazada[p], r \in reservaciones :
              /\ r.sala_id = f.sala_id /\ r.fecha = f.fecha /\ r.turno = f.turno
              /\ r.cliente_id # f.cliente_id

\* C3: a step whose INSERT fails leaves the rows of reservaciones exactly
\* as they were.
C3_Paso ==
    \A p \in Procs :
        (pc[p] = "evento" /\ msg'[p] = "Conflict") => reservaciones' = reservaciones

C3_SinEscrituraParcial == [][C3_Paso]_vars

\* An INSERT has just failed and the key it would have taken is unused.
C3_Testigo ==
    \E p \in Procs :
        /\ msg[p] = "Conflict"
        /\ reservaciones # {}
        /\ \E f \in rechazada[p] : \A r \in reservaciones : r.id # f.id

\* C4: the folios of any two reservations differ, and the folio of every
\* reservation is R followed by its key in six digits.
C4_FolioDeClave ==
    /\ \A r1, r2 \in reservaciones : r1.folio = r2.folio => r1 = r2
    /\ \A r \in reservaciones :
          /\ Len(r.folio) = 7
          /\ r.folio[1] = "R"
          /\ SoloDigitos(SubSeq(r.folio, 2, 7))
          /\ ValorDecimal(SubSeq(r.folio, 2, 7)) = r.id

\* The rows that a step added to reservaciones.
FilasNuevas == reservaciones' \ reservaciones

\* C5: a date that is let through the date prompt lies at least two days
\* after the current day (today + 1 or earlier is re-prompted), and a row is
\* stored with a date at least two days after the day its date was checked.
C5_Paso ==
    \A p \in Procs :
        /\ (pc[p] = "fecha" /\ pc'[p] \in {"domingo", "escaneo"})
              => loc'[p].d >= hoy + 2
        /\ (pc[p] = "evento" /\ pc'[p] = "folio")
              => \A r \in FilasNuevas : FechaDe(r)[1] >= loc[p].hoy_validada + 2

C5_DosDiasDeAnticipacion == [][C5_Paso]_vars

\* C6: when the day has changed since the workflow reached the date prompt,
\* a date earlier than the new today + 2 is not let through.
C6_Paso ==
    \A p \in Procs :
        (pc[p] = "fecha" /\ loc[p].min_fecha < hoy + 2
                /\ pc'[p] \in {"domingo", "escaneo"})
            => loc'[p].d >= hoy + 2

C6_FechaMinimaVigente == [][C6_Paso]_vars

\* Sunday 12-28-2025 and every seventh day after it.
EsDomingoDeCalendario(n) == (n - toordinal(2025, 12, 28)) % 7 = 0

\* The answers that accept the proposed Monday.
Acepta(entrada) == entrada \in {<<"s">>, <<"S", " ">>}

\* C7: every row that a step adds to the store, which starts empty, or
\* rewrites in it is dated a day that is not a Sunday, so no stored
\* reservation is dated a Sunday; a Sunday is never taken to the
\* availability check, nor to the room prompt; at the confirmation prompt
\* an answer that does not accept returns to the date prompt, an accepting
\* answer has the availability checked for the following Monday (which
\* returns to the date prompt at once when no room is registered), the room
\* prompt is reached with the date that was checked, and the row stored is
\* dated the date so finalized.
C7_Paso ==
    /\ \A r \in FilasNuevas :
          FechaDe(r) # << >> /\ ~EsDomingoDeCalendario(FechaDe(r)[1])
    /\ \A p \in Procs :
        /\ (pc[p] = "fecha" /\ pc'[p] = "escaneo")
              => ~EsDomingoDeCalendario(loc'[p].d)
        /\ (pc[p] = "fecha" /\ pc'[p] = "domingo")
              => EsDomingoDeCalendario(loc'[p].d)
        /\ \A entrada \in SiNoIn :
              (pc[p] = "domingo" /\ base /\ ConfirmaLunes(p, entrada)) =>
                 IF Acepta(entrada)
                 THEN \/ /\ pc'[p] = "escaneo"
                         /\ loc'[p].d = loc[p].d + 1
                      \/ /\ pc'[p] = "fecha"
                         /\ salas = {}
                 ELSE pc'[p] = "fecha"
        /\ (pc[p] = "escaneo" /\ pc'[p] \in {"escaneo", "sala"})
              => loc'[p].d = loc[p].d
        /\ pc[p] = "escaneo" => pc'[p] \in {"escaneo", "sala", "fecha", "fin"}
        /\ (pc[p] = "evento" /\ pc'[p] = "folio")
              => \A r \in FilasNuevas : FechaDe(r) = <<loc[p].d>>

C7_NuncaEnDomingo == [][C7_Paso]_vars

\* A reservation dated Monday 01-05-2026, a date that the inputs reach only
\* through the accepted proposal for Sunday 01-04-2026.
C7_Testigo ==
    \E r \in reservaciones : FechaDe(r) = <<toordinal(2026, 1, 5)>>

\* Shift t of room s has no reservation on date d.
Libre(s, d, t) == ~\E r \in reservaciones : Ocupa(r, s, d, t)

PosTurno(t) == CHOOSE i \in 1..Len(TURNOS) : TURNOS[i] = t

\* res is the availability of date d: the rooms with a free shift, each
\* with exactly its free shifts, rooms by ascending key, shifts in the
\* order of TURNOS.
DisponiblesCorrecto(res, d) ==
    /\ \A i \in 1..Len(res) :
          /\ res[i][1] \in salas
          /\ \A j \in 1..Len(res[i][2]) : EnSecuencia(res[i][2][j], TURNOS)
          /\ \A k \in 1..Len(TURNOS) :
                EnSecuencia(TURNOS[k], res[i][2]) <=> Libre(res[i][1], d, TURNOS[k])
          /\ \A a, b \in 1..Len(res[i][2]) :
                a < b => PosTurno(res[i][2][a]) < PosTurno(res[i][2][b])
    /\ \A s \in salas :
          (\E i \in 1..Len(res) : res[i][1] = s)
              <=> (\E k \in 1..Len(TURNOS) : Libre(s, d, TURNOS[k]))
    /\ \A i, j \in 1..Len(res) : i < j => res[i][1] < res[j][1]

\* C8: over a store that does not change while it is read, the scan of
\* salas_disponibles_para_fecha ends with exactly the rooms that have a
\* free shift on the date, each with exactly its free shifts, rooms by
\* ascending key and shifts in the order Matutino, Vespertino, Nocturno;
\* it ends with the empty list, and the date is asked again, exactly when
\* no room has a free shift on the date.
C8_Paso ==
    \A p \in Procs :
        /\ (pc[p] = "escaneo" /\ pc'[p] = "sala")
              => /\ loc'[p].disponibles # << >>
                 /\ DisponiblesCorrecto(loc'[p].disponibles, loc[p].d)
        /\ (pc[p] = "escaneo" /\ pc'[p] = "fecha")
              => DisponiblesCorrecto(<< >>, loc[p].d)
        /\ (pc[p] \in {"fecha", "domingo"} /\ pc'[p] = "escaneo")
              => \E s \in salas : TRUE

C8_DisponiblesExactos == [][C8_Paso]_vars

\* The room prompt shows only room 2, with its three shifts: room 1 is full
\* on the date.
C8_Testigo ==
    /\ pc["p1"] = "sala"
    /\ Len(loc["p1"].disponibles) = 1
    /\ loc["p1"].disponibles[1][1] = 2
    /\ Len(loc["p1"].disponibles[1][2]) = 3
    /\ Cardinality(reservaciones) = 3

\* C9: the rows shown by the query of a date are exactly the reservations
\* of that date, by shift in the order of TURNOS and then by room key.
C9_Paso ==
    \A p \in Procs :
        (pc[p] = "consulta" /\ pc'[p] = "exportar") =>
            LET t == loc'[p].table IN
            /\ {<<t[i].sala_id, t[i].turno>> : i \in 1..Len(t)}
                  = {<<r.sala_id, r.turno>> :
                        r \in {x \in reservaciones : x.fecha = t[1].fecha}}
            /\ \A i, j \in 1..Len(t) :
                  i < j =>
                     \/ PosTurno(t[i].turno) < PosTurno(t[j].turno)
                     \/ /\ t[i].turno = t[j].turno
                        /\ t[i].sala_id < t[j].sala_id

C9_OrdenDeConsulta == [][C9_Paso]_vars

\* C10: the rows listed by the range lookup are in ascending order of
\* calendar date.
C10_Paso ==
    \A p \in Procs :
        (pc[p] = "hasta" /\ pc'[p] = "clave") =>
            LET rows == loc'[p].rows IN
            \A i, j \in 1..Len(rows) :
                i < j => parsear_fecha(rows[i][4])[1] <= parsear_fecha(rows[j][4])[1]

C10_OrdenPorFecha == [][C10_Paso]_vars

\* C11: at the second prompt of the range lookup a date b before the first
\* date a (or a text that is no date) is asked again and nothing is queried;
\* with a <= b the rows listed are exactly the reservations whose calendar
\* date d has a <= d <= b.
C11_Paso ==
    \A p \in Procs : \A entrada \in RangoIn :
        (pc[p] = "hasta" /\ IngresaHasta(p, entrada)) =>
            LET a == loc[p].desde
                b == parsear_fecha(strip(entrada))
            IN IF b = << >> \/ b[1] < a
               THEN pc'[p] = "hasta" /\ loc'[p] = loc[p]
               ELSE LET enRango == {r \in reservaciones :
                                       a <= FechaDe(r)[1] /\ FechaDe(r)[1] <= b[1]}
                    IN IF enRango = {}
                       THEN pc'[p] = "menu"
                       ELSE /\ pc'[p] = "clave"
                            /\ {loc'[p].rows[i][1] : i \in 1..Len(loc'[p].rows)}
                                  = {r.id : r \in enRango}

C11_RangoExacto == [][C11_Paso]_vars

\* The text has a character that is not a blank.
NoEnBlanco(texto) == \E i \in 1..Len(texto) : texto[i] # " "

\* Rows a and b agree in every column but nombre_evento.
IgualSalvoNombre(a, b) ==
    /\ a.id = b.id /\ a.folio = b.folio /\ a.cliente_id = b.cliente_id
    /\ a.sala_id = b.sala_id /\ a.fecha = b.fecha /\ a.turno = b.turno

\* C12: no step removes a reservation; the key accepted at the key prompt
\* is the key of a stored reservation; an event name changes only in the
\* final step of an edit, for the reservation of the selected key and to a
\* name that is not blank; and that step leaves the number of reservations,
\* every other column of that reservation and every other reservation as
\* they were.
C12_Paso ==
    /\ \A r \in reservaciones : \E r2 \in reservaciones' : r2.id = r.id
    /\ \A p \in Procs :
          (pc[p] = "clave" /\ pc'[p] = "nuevo")
              => \E r \in reservaciones : r.id = loc'[p].clave_id
    /\ \A r \in reservaciones : \A r2 \in reservaciones' :
          (r2.id = r.id /\ r2.nombre_evento # r.nombre_evento)
              => \E p \in Procs :
                    /\ pc[p] = "nuevo" /\ pc'[p] = "menu"
                    /\ loc[p].clave_id = r.id
                    /\ NoEnBlanco(r2.nombre_evento)
    /\ \A p \in Procs :
          (pc[p] = "nuevo" /\ pc'[p] = "menu") =>
              \E r \in reservaciones : \E r2 \in reservaciones' :
                  /\ r.id = loc[p].clave_id
                  /\ IgualSalvoNombre(r, r2)
                  /\ NoEnBlanco(r2.nombre_evento)
                  /\ reservaciones' \ {r2} = reservaciones \ {r}
                  /\ Cardinality(reservaciones') = Cardinality(reservaciones)

C12_SoloElNombre == [][C12_Paso]_vars

\* C13: the event name of every stored reservation has a character that is
\* not a blank, so it is not empty after trimming.
C13_NombreNoVacio ==
    \A r \in reservaciones :
        r.nombre_evento # << >> /\ NoEnBlanco(r.nombre_evento)

\* A reservation booked as 'Boda' and one renamed from the input ' Gala ',
\* with the blank inputs of both prompts available to the instances.
C13_Testigo ==
    /\ \E r \in reservaciones : r.nombre_evento = <<"G", "a", "l", "a">>
    /\ \E r \in reservaciones : r.nombre_evento = <<"B", "o", "d", "a">>
    /\ pc["p1"] = "menu" /\ pc["p2"] = "menu"

\* C14: the client and the room of every stored reservation are a
\* registered client and a registered room, and so are the client and the
\* room that a booking in progress has selected.
C14_ReferenciasValidas ==
    /\ \A r \in reservaciones : r.cliente_id \in clientes /\ r.sala_id \in salas
    /\ \A p \in Procs :
          /\ pc[p] \in {"fecha", "domingo", "escaneo", "sala", "turno", "evento"}
                => loc[p].cliente_id \in clientes
          /\ pc[p] \in {"turno", "evento"} => loc[p].sala_elegida \in salas

\* The booking instance has just inserted a reservation whose client and
\* room the other instance registered.
C14_Testigo ==
    /\ pc["p1"] = "folio"
    /\ \E r \in reservaciones :
          r.id = loc["p1"].res_id /\ r.cliente_id \in clientes /\ r.sala_id \in salas

\* C15: an insert step ends in Conflict only if a reservation of the same
\* (room, date, shift) is stored when it is attempted; an insert for a
\* (room, date, shift) that is free is accepted.
C15_Paso ==
    \A p \in Procs :
        (pc[p] = "evento" /\ pc'[p] # "evento")
            => /\ msg'[p] = "Conflict" => SeleccionOcupada(p)
               /\ ~SeleccionOcupada(p) => pc'[p] = "folio"

C15_ConflictoSoloSiOcupada == [][C15_Paso]_vars

\* C16: no reader is shown a reservation without its folio: every row of
\* the table of the per-date query and of the list of the range lookup has
\* a folio that is not empty.
C16_Paso ==
    \A p \in Procs :
        /\ (pc[p] = "consulta" /\ pc'[p] = "exportar")
              => \A i \in 1..Len(loc'[p].table) : loc'[p].table[i].folio # << >>
        /\ (pc[p] = "hasta" /\ pc'[p] = "clave")
              => \A i \in 1..Len(loc'[p].rows) : loc'[p].rows[i][2] # << >>

C16_FolioVisible == [][C16_Paso]_vars

\* C17: the list shown at the room prompt is what the scan of the
\* availability reported for the finalized date (the Monday, after an
\* accepted proposal for a Sunday): rooms that it read, each with shifts
\* that it counted free;
\* the room prompt lets through only a room of that list, with that room's
\* shifts; the shift prompt lets through only one of those shifts; any
\* other key or shift is asked again (or cancels, at the room prompt); and
\* the row sent to the INSERT has that date, room and shift.
C17_Paso ==
    \A p \in Procs :
        /\ (pc[p] = "domingo" /\ pc'[p] = "escaneo")
              => loc'[p].d = loc[p].d + 1
        /\ (pc[p] = "escaneo" /\ pc'[p] = "escaneo")
              => /\ loc'[p].d = loc[p].d
                 /\ loc'[p].salas = loc[p].salas
                 /\ \A t \in {loc'[p].turnos_libres[k] :
                                 k \in 1..Len(loc'[p].turnos_libres)}
                           \ {loc[p].turnos_libres[k] :
                                 k \in 1..Len(loc[p].turnos_libres)} :
                       /\ t = TURNOS[loc[p].j]
                       /\ Libre(loc[p].salas[loc[p].i], loc[p].d, t)
        /\ (pc[p] = "escaneo" /\ pc'[p] = "sala")
              => /\ loc'[p].d = loc[p].d
                 /\ \A i \in 1..Len(loc'[p].disponibles) :
                       /\ EnSecuencia(loc'[p].disponibles[i][1], loc[p].salas)
                       /\ \A k \in 1..Len(loc'[p].disponibles[i][2]) :
                             EnSecuencia(loc'[p].disponibles[i][2][k], TURNOS)
        /\ pc[p] = "sala" => pc'[p] \in {"sala", "turno", "menu"}
        /\ (pc[p] = "sala" /\ pc'[p] = "turno")
              => /\ \E i \in 1..Len(loc[p].disponibles) :
                       /\ loc[p].disponibles[i][1] = loc'[p].sala_elegida
                       /\ loc[p].disponibles[i][2] = loc'[p].sala_turnos
                 /\ loc'[p].d = loc[p].d
        /\ pc[p] = "turno" => pc'[p] \in {"turno", "evento"}
        /\ (pc[p] = "turno" /\ pc'[p] = "evento")
              => /\ \E j \in 1..Len(loc[p].sala_turnos) :
                       loc[p].sala_turnos[j] = loc'[p].turno
                 /\ loc'[p].sala_elegida = loc[p].sala_elegida
                 /\ loc'[p].d = loc[p].d
        /\ (pc[p] = "evento" /\ pc'[p] \in {"folio", "menu"})
              => LET enviadas == FilasNuevas \cup rechazada'[p] IN
                 /\ enviadas # {}
                 /\ \A f \in enviadas :
                       /\ f.sala_id = loc[p].sala_elegida
                       /\ f.turno = loc[p].turno
                       /\ FechaDe(f) = <<loc[p].d>>

C17_SeleccionReportada == [][C17_Paso]_vars

\* An instance has just inserted the Nocturno shift of Monday 01-05-2026,
\* the date proposed for Sunday 01-04-2026.
C17_Testigo ==
    \E p \in Procs :
        /\ pc[p] = "folio"
        /\ \E r \in reservaciones :
              /\ r.id = loc[p].res_id
              /\ r.turno = Nocturno
              /\ r.fecha = F_01_05_2026

\* Some date that can be typed gets instance p past the date loop: it is a
\* date not before the bound of the prompt for which, after the change to
\* Monday if it is a Sunday, some room has a free shift.
AlgunaFechaPasa(p) ==
    \E entrada \in FechasIn :
        LET d == parsear_fecha(strip(entrada)) IN
        /\ d # << >>
        /\ d[1] >= loc[p].min_fecha
        /\ \E s \in salas : \E i \in 1..Len(TURNOS) :
              Libre(s, IF EsDomingoDeCalendario(d[1]) THEN d[1] + 1 ELSE d[1], TURNOS[i])

\* C18: at every prompt of a started booking some input leads on towards
\* the menu: the client prompt and the room prompt can be cancelled, some
\* date gets past the date loop to the room prompt, some shift gets past
\* the shift prompt, some name gets past the event-name prompt to the
\* INSERT, and after the INSERT control returns to the menu.
C18_SalidaPosible ==
    \A p \in {"p1"} :
        /\ pc[p] = "cliente" =>
              ENABLED (\E entrada \in ClavesIn :
                          SeleccionaCliente(p, entrada) /\ pc'[p] = "menu")
        /\ pc[p] \in {"fecha", "domingo", "escaneo"} => AlgunaFechaPasa(p)
        /\ pc[p] = "escaneo" => ENABLED CuentaTurno(p)
        /\ pc[p] = "sala" =>
              ENABLED (\E entrada \in ClavesIn :
                          SeleccionaSala(p, entrada) /\ pc'[p] = "menu")
        /\ pc[p] = "turno" =>
              ENABLED (\E entrada \in TurnosIn :
                          SeleccionaTurno(p, entrada) /\ pc'[p] = "evento")
        /\ pc[p] = "evento" =>
              ENABLED (\E entrada \in EventosIn :
                          NombraEvento(p, entrada) /\ pc'[p] \in {"folio", "menu"})
        /\ pc[p] = "folio" => ENABLED (AsignaFolio(p) /\ pc'[p] = "menu")

\* The prompts of a booking before its INSERT, the scan of the
\* availability, the prompts of an edit before its UPDATE, and the prompts
\* of the per-date query up to the choice of an export format.
SinEscritura ==
    {"cliente", "fecha", "domingo", "escaneo", "sala", "turno",
     "desde", "hasta", "clave", "consulta", "exportar", "formato"}

\* C19: a step in which an instance computes the availability of a date,
\* answers the per-date query, or moves at or away from any prompt that
\* comes before the write of its booking or edit (the cancellations at the
\* client, room and key prompts included) leaves clients, rooms and
\* reservations as they were; so a workflow that ends by cancellation has
\* changed nothing since it started.
C19_Paso ==
    \A p \in Procs :
        (/\ \/ pc[p] \in SinEscritura
            \/ pc[p] = "menu" /\ pc'[p] \in {"consulta", "cliente", "desde"}
         /\ <<pc'[p], loc'[p]>> # <<pc[p], loc[p]>>)
            => <<clientes', salas', reservaciones'>> = <<clientes, salas, reservaciones>>

C19_SinEfectos == [][C19_Paso]_vars

\* Over a store with a reservation, one instance is at the room prompt with
\* the availability computed and the other at the key prompt with the rows
\* of its range listed; both prompts can be cancelled.
C19_Testigo ==
    /\ reservaciones # {}
    /\ pc["p1"] = "sala" /\ loc["p1"].disponibles # << >>
    /\ pc["p2"] = "clave" /\ loc["p2"].rows # << >>

====
